---- MODULE Spec2Model ----
(***************************************************************************)
(* State-machine model of the index engine of IndexedDBShim                *)
(* (src/src/IDBIndex.js): index descriptors and handles, the name setter   *)
(* (rename), __createIndex, __deleteIndex, __updateIndexList,              *)
(* __fetchIndexData / buildFetchIndexDataSQL / executeFetchIndexData and    *)
(* __renameIndex, run against a flat table whose columns hold encoded      *)
(* index keys.  Collaborators whose code lives in other files              *)
(* (IDBTransaction, IDBObjectStore, Key) are modelled from spec.md.         *)
(***************************************************************************)
EXTENDS Integers, Sequences, FiniteSets, TLC

\* ------------------------------------------------------------------ bounds
MaxOps == 2
MaxLifecycleOps == 4
MaxDataOps == 3
MaxRenameOps == 2
MaxReads == 1
MaxPuts == 1
MaxRec == 2
MaxColumnOps == 3

\* ------------------------------------------------------------- vocabulary
Names == {"a", "b", "c"}
NoName == "-"
NameOrNone == Names \cup {NoName}
NULL == <<>>

\* A key (or what a key path yields): kind "none" is no valid key; numbers
\* and dates carry n, strings and binary blobs carry chars (code points),
\* arrays carry els (a sequence of keys).
VNone == [kind |-> "none", n |-> 0, chars |-> <<>>, els |-> <<>>]
VNum(n) == [kind |-> "num", n |-> n, chars |-> <<>>, els |-> <<>>]
VDate(n) == [kind |-> "date", n |-> n, chars |-> <<>>, els |-> <<>>]
VBin(cs) == [kind |-> "bin", n |-> 0, chars |-> cs, els |-> <<>>]
VStr(cs) == [kind |-> "str", n |-> 0, chars |-> cs, els |-> <<>>]
VArrOf(ks) == [kind |-> "arr", n |-> 0, chars |-> <<>>, els |-> ks]
VArr(s) == VArrOf([i \in 1..Len(s) |-> VNum(s[i])])
Values == {VNone, VNum(1), VNum(2), VArr(<<1, 2>>)}
QueryKeys == {VNum(1), VNum(2)}

Min(x, y) == IF x < y THEN x ELSE y
Max(x, y) == IF x > y THEN x ELSE y

\* --------------------------------------------------------------- Key codec
\* Key.encode: a category tag precedes the payload.  Payload cells are
\* biased so that they are larger than every tag; a string or blob inside an
\* array (inArray) is closed by the end marker, and an array is the
\* concatenation of its element encodings closed by the end marker.
TagEnd == 0
TagNum == 1
TagDate == 2
TagBin == 3
TagStr == 4
TagArr == 5
Bias == 12

BiasCells(cs) == [i \in 1..Len(cs) |-> cs[i] + Bias]
UnbiasCells(e) == [i \in 1..Len(e) |-> e[i] - Bias]

EncodeScalar(key, inArray) ==
  CASE key.kind = "num" -> <<TagNum, key.n + Bias>>
    [] key.kind = "date" -> <<TagDate, key.n + Bias>>
    [] key.kind = "bin" ->
         <<TagBin>> \o BiasCells(key.chars) \o (IF inArray THEN <<TagEnd>> ELSE <<>>)
    [] key.kind = "str" ->
         <<TagStr>> \o BiasCells(key.chars) \o (IF inArray THEN <<TagEnd>> ELSE <<>>)

\* An element of an array is a key of any category, an array included.
RECURSIVE EncodeEls(_)
EncodeEls(s) ==
  IF s = <<>> THEN <<>>
  ELSE (IF Head(s).kind = "arr"
        THEN <<TagArr>> \o EncodeEls(Head(s).els) \o <<TagEnd>>
        ELSE EncodeScalar(Head(s), TRUE)) \o EncodeEls(Tail(s))

Encode(key, inArray) ==
  CASE key.kind = "none" -> NULL
    [] key.kind = "arr" -> <<TagArr>> \o EncodeEls(key.els) \o <<TagEnd>>
    [] OTHER -> EncodeScalar(key, inArray)

\* Payload cells of a string or blob: everything after the tag up to the
\* end marker, when there is one.
PayloadEnd(e) ==
  IF \E i \in 2..Len(e) : e[i] = TagEnd
  THEN (CHOOSE i \in 2..Len(e) : e[i] = TagEnd /\ \A j \in 2..(i - 1) : e[j] # TagEnd) - 1
  ELSE Len(e)

DecodeScalar(e) ==
  CASE e[1] = TagNum -> VNum(e[2] - Bias)
    [] e[1] = TagDate -> VDate(e[2] - Bias)
    [] e[1] = TagBin -> VBin(UnbiasCells(SubSeq(e, 2, PayloadEnd(e))))
    [] e[1] = TagStr -> VStr(UnbiasCells(SubSeq(e, 2, PayloadEnd(e))))

\* Number of cells the first element encoding of e takes; an array element
\* runs to the end marker that closes it.
RECURSIVE ElementLen(_)
ElementLen(e) ==
  IF e[1] \in {TagNum, TagDate} THEN 2
  ELSE IF e[1] \in {TagBin, TagStr} THEN PayloadEnd(e) + 1
  ELSE LET RECURSIVE ElsLen(_)
           ElsLen(r) ==
             IF r = <<>> \/ r[1] = TagEnd THEN 0
             ELSE ElementLen(r) + ElsLen(SubSeq(r, ElementLen(r) + 1, Len(r)))
       IN ElsLen(Tail(e)) + 2

RECURSIVE DecodeEls(_)
DecodeEls(e) ==
  IF e = <<>> THEN <<>>
  ELSE LET el == SubSeq(e, 1, ElementLen(e))
       IN <<IF el[1] = TagArr
            THEN VArrOf(DecodeEls(SubSeq(el, 2, Len(el) - 1)))
            ELSE DecodeScalar(el)>>
            \o DecodeEls(SubSeq(e, ElementLen(e) + 1, Len(e)))

Decode(e) ==
  IF e = NULL THEN VNone
  ELSE IF e[1] = TagArr THEN VArrOf(DecodeEls(SubSeq(e, 2, Len(e) - 1)))
  ELSE DecodeScalar(e)

RECURSIVE Dedup(_)
Dedup(s) ==
  IF s = <<>> THEN <<>>
  ELSE LET r == Dedup(SubSeq(s, 1, Len(s) - 1))
           x == s[Len(s)]
       IN IF \E i \in 1..Len(r) : r[i] = x THEN r ELSE Append(r, x)

\* Key.extractKeyValueDecodedFromValueUsingKeyPath: the record payload is
\* abstracted to what its key path yields.
ExtractKey(value, multiEntry) ==
  IF value.kind = "none" THEN [failure |-> TRUE, value |-> VNone]
  ELSE IF value.kind = "arr" /\ multiEntry
       THEN [failure |-> FALSE, value |-> VArrOf(Dedup(value.els))]
  ELSE [failure |-> FALSE, value |-> value]

\* --------------------------------------------------------- JS array helpers
\* Array.prototype.indexOf: 0-based position, -1 when absent.
IndexOf(s, x) ==
  IF \E i \in 1..Len(s) : s[i] = x
  THEN (CHOOSE i \in 1..Len(s) : s[i] = x /\ \A j \in 1..(i - 1) : s[j] # x) - 1
  ELSE -1

\* Array.prototype.splice(start, deleteCount, ...items); a negative start
\* counts from the end of the array.
Splice(s, start, del, items) ==
  LET st == IF start < 0 THEN Max(Len(s) + start, 0) ELSE Min(start, Len(s))
      dc == Min(del, Len(s) - st)
  IN SubSeq(s, 1, st) \o items \o SubSeq(s, st + dc + 1, Len(s))

Range(s) == {s[i] : i \in 1..Len(s)}

\* ------------------------------------------------------------ index objects
\* One IDBIndex instance (a descriptor in store.__indexes or a handle in
\* store.__indexHandles); pendingName = NoName means the property is absent.
NewIndex(name, unique, multiEntry) ==
  [name |-> name, unique |-> unique, multiEntry |-> multiEntry,
   pendingCreate |-> FALSE, pendingDelete |-> FALSE, deleted |-> FALSE,
   recreated |-> FALSE, pendingName |-> NoName]

\* IDBIndex.__clone: a new instance with the flags copied (not __pendingName).
Clone(index) ==
  [NewIndex(index.name, index.unique, index.multiEntry) EXCEPT
     !.pendingCreate = index.pendingCreate,
     !.pendingDelete = index.pendingDelete,
     !.deleted = index.deleted,
     !.recreated = index.recreated]

\* the __currentName getter
CurrentName(index) ==
  IF index.pendingName # NoName THEN index.pendingName ELSE index.name

\* ------------------------------------------------------------ flat storage
EmptyEnt == [n \in Names |-> NULL]
NoRow == [present |-> FALSE, key |-> NULL, value |-> VNone, ent |-> EmptyEnt]
NoSys == [present |-> FALSE, unique |-> FALSE, multiEntry |-> FALSE, deleted |-> FALSE]
EmptySys == [n \in Names |-> NoSys]

\* A column holds, per row, the encoded index key or NULL.  ent[c] is NULL
\* for every column c the table does not have.
AddColumn(d, c) == [d EXCEPT !.cols = @ \cup {c}]

SetEntry(d, c, pk, enc) ==
  [d EXCEPT !.rows[pk].ent[c] = enc]

PresentKeys(d) == {pk \in 1..MaxRec : d.rows[pk].present}

\* The primary keys of the record slots, in ascending key order: the "key"
\* column of a row holds the encoded primary key.
PrimaryKeys ==
  <<VStr(<<1, 2>>), VArrOf(<<VStr(<<1>>), VDate(2)>>),
    VArrOf(<<VStr(<<1>>), VDate(2), VNum(-1)>>),
    VArrOf(<<VStr(<<1, 2>>), VBin(<<2>>)>>)>>
PrimaryKey(pk) == PrimaryKeys[pk]

\* ------------------------------------------------------------------- state
VARIABLES
  objs,          \* every IDBIndex instance created so far, by identity
  indexNames,    \* store.indexNames
  indexes,       \* store.__indexes: name -> instance (0 = no property)
  indexHandles,  \* store.__indexHandles (the transaction's store handle)
  store,         \* the object store's own lifecycle flags
  tx,            \* the owning transaction: mode, __active, __errored
  queue,         \* the transaction queue, FIFO
  db,            \* the store's table, its storage indexes and its __sys__ row
  snapshot,      \* what an abort restores: the state at transaction start
  useSQLiteIndexes, \* CFG.useSQLiteIndexes
  budget,        \* calls made so far (bounds the exploration)
  lastCall,      \* the last API call and how it returned
  lastStep       \* the last queued step run and the continuation it invoked

vars == <<objs, indexNames, indexes, indexHandles, store, tx, queue, db,
          snapshot, useSQLiteIndexes, budget, lastCall, lastStep>>

storeVars == <<objs, indexNames, indexes, indexHandles, store, queue, db>>

ObjIds == 1..Len(objs)

NoStep ==
  [type |-> "none", index |-> 0, handle |-> 0, idx |-> 0, indexName |-> NoName,
   oldName |-> NoName, newName |-> NoName, preserve |-> <<>>,
   hasRange |-> FALSE, range |-> VNone, opType |-> "-", nullDisallowed |-> FALSE,
   count |-> 0, pk |-> 0, value |-> VNone]

NoCall ==
  [op |-> "none", obj |-> 0, name |-> NoName, q |-> FALSE, result |-> "-", n |-> 0]

NoResult ==
  [type |-> "none", out |-> "-", err |-> "-", fault |-> FALSE, step |-> NoStep,
   result |-> [kind |-> "-", n |-> 0, items |-> <<>>], n |-> 0]

\* ------------------------------------------------------ __updateIndexList
\* Rewrites the persisted index list from store.indexNames; the recorded
\* flag reads idx.deleted, a property no IDBIndex instance has.
RECURSIVE IndexListOf(_, _, _, _)
IndexListOf(names, map, os, acc) ==
  IF names = <<>> THEN acc
  ELSE LET idx == os[map[Head(names)]]
       IN IndexListOf(Tail(names), map, os,
            [acc EXCEPT ![idx.name] =
               [present |-> TRUE, unique |-> idx.unique,
                multiEntry |-> idx.multiEntry, deleted |-> FALSE]])

\* A name of indexNames without a descriptor makes the loop throw.
IndexListThrows(names, map) == \E i \in 1..Len(names) : map[names[i]] = 0

UpdateIndexList(d, names, map, os) ==
  [d EXCEPT !.sys = IndexListOf(names, map, os, EmptySys)]

\* ------------------------------------------------------- createIndex step
\* What a chain of storage statements leaves: the table, the continuation
\* invoked (success, failure, or none) and the number of statements issued.
\* f is the position, in order of issue, of the statement the storage
\* backend fails (0: none fails).
Chain(d, out, err, stmts) ==
  [db |-> d, out |-> out, err |-> err, stmts |-> stmts, fault |-> FALSE]

\* The same, when it is the storage backend that failed the last statement.
Fault(d, out, err, stmts) ==
  [db |-> d, out |-> out, err |-> err, stmts |-> stmts, fault |-> TRUE]

\* Variant of addIndexEntry without the duplicate test of a unique index
\* (for the sensitivity of C1_UniqueCreateFails).
RECURSIVE AddIndexEntryNoDuplicateTest(_, _, _, _, _, _, _)
AddIndexEntryNoDuplicateTest(i, d, indexValues, k, index, indexName, f) ==
  IF i > MaxRec THEN Chain(d, "success", "-", k - 1)
  ELSE IF ~d.rows[i].present
  THEN AddIndexEntryNoDuplicateTest(i + 1, d, indexValues, k, index, indexName, f)
  ELSE LET indexKey == ExtractKey(d.rows[i].value, index.multiEntry)
           enc == Encode(indexKey.value, index.multiEntry)
       IN IF indexKey.failure
          THEN AddIndexEntryNoDuplicateTest(i + 1, d, indexValues, k, index, indexName, f)
          ELSE IF f = k THEN Fault(d, "failure", "UnknownError", k)
          ELSE IF indexName \notin d.cols
          THEN Chain(d, "failure", "UnknownError", k)
          ELSE AddIndexEntryNoDuplicateTest(i + 1, SetEntry(d, indexName, i, enc),
                 indexValues, k + 1, index, indexName, f)

\* addIndexEntry(i): extract, encode, detect a duplicate of a unique index,
\* UPDATE the column named when createIndex was called; a record whose key
\* cannot be extracted is skipped.
RECURSIVE AddIndexEntry(_, _, _, _, _, _, _)
AddIndexEntry(i, d, indexValues, k, index, indexName, f) ==
  IF i > MaxRec THEN Chain(d, "success", "-", k - 1)
  ELSE IF ~d.rows[i].present
  THEN AddIndexEntry(i + 1, d, indexValues, k, index, indexName, f)
  ELSE LET indexKey == ExtractKey(d.rows[i].value, index.multiEntry)
           enc == Encode(indexKey.value, index.multiEntry)
       IN IF indexKey.failure
          THEN AddIndexEntry(i + 1, d, indexValues, k, index, indexName, f)
          ELSE IF index.unique /\ enc \in indexValues
          THEN Chain(d, "failure", "ConstraintError", k - 1)
          ELSE IF f = k THEN Fault(d, "failure", "UnknownError", k)
          ELSE IF indexName \notin d.cols
          THEN Chain(d, "failure", "UnknownError", k)
          ELSE AddIndexEntry(i + 1, SetEntry(d, indexName, i, enc),
                 IF index.unique THEN indexValues \cup {enc} ELSE indexValues,
                 k + 1, index, indexName, f)

\* Variant of applyIndex whose backfill starts at the second record (for
\* the sensitivity of C27_BackfillEveryRecord).
ApplyIndexFromSecondRecord(d, k, s, f, names, map, os) ==
  IF IndexListThrows(names, map) THEN Chain(d, "none", "TypeError", k)
  ELSE IF f = k + 1 THEN Fault(d, "failure", "UnknownError", k + 1)
  ELSE IF f = k + 2
  THEN Fault(UpdateIndexList(d, names, map, os), "failure", "UnknownError", k + 2)
  ELSE IF ~d.table
  THEN Chain(UpdateIndexList(d, names, map, os), "failure", "UnknownError", k + 2)
  ELSE AddIndexEntry(2, UpdateIndexList(d, names, map, os), {}, k + 3,
                     os[s.index], s.indexName, f)

\* applyIndex: rewrite the index list, SELECT every record, backfill.
ApplyIndex(d, k, s, f, names, map, os) ==
  IF IndexListThrows(names, map) THEN Chain(d, "none", "TypeError", k)
  ELSE IF f = k + 1 THEN Fault(d, "failure", "UnknownError", k + 1)
  ELSE IF f = k + 2
  THEN Fault(UpdateIndexList(d, names, map, os), "failure", "UnknownError", k + 2)
  ELSE IF ~d.table
  THEN Chain(UpdateIndexList(d, names, map, os), "failure", "UnknownError", k + 2)
  ELSE AddIndexEntry(1, UpdateIndexList(d, names, map, os), {}, k + 3,
                     os[s.index], s.indexName, f)

\* Variant of the createIndex function that never finds the column to
\* exist (for the sensitivity of C4_RecreateReusesColumn).
CreateIndexChainAlwaysAdding(d, s, f, names, map, os, sqlite) ==
  LET index == os[s.index]
  IN IF f = 1 THEN Fault(d, "failure", "UnknownError", 1)
     ELSE IF ~d.table \/ index.name \in d.cols
     THEN Chain(d, "failure", "UnknownError", 1)
     ELSE ApplyIndex(AddColumn(d, index.name), 1, s, f, names, map, os)

\* The queued createIndex function: columnExists is read when the step
\* runs; ALTER TABLE ADD names the column by index.name as it is then.
CreateIndexChain(d, s, f, names, map, os, sqlite) ==
  LET index == os[s.index]
      columnExists == s.idx # 0 /\ (os[s.idx].deleted \/ os[s.idx].recreated)
  IN IF columnExists THEN ApplyIndex(d, 0, s, f, names, map, os)
     ELSE IF f = 1 THEN Fault(d, "failure", "UnknownError", 1)
     ELSE IF ~d.table \/ index.name \in d.cols
     THEN Chain(d, "failure", "UnknownError", 1)
     ELSE IF ~sqlite
     THEN ApplyIndex(AddColumn(d, index.name), 1, s, f, names, map, os)
     ELSE IF f = 2
     THEN Fault(AddColumn(d, index.name), "failure", "UnknownError", 2)
     ELSE ApplyIndex([AddColumn(d, index.name) EXCEPT !.sqlIdx = @ \cup {index.name}],
                     2, s, f, names, map, os)

\* Variant of the end of addIndexEntry that clears the flags of the
\* descriptor alone (for the sensitivity of C26_ReadAfterBackfill).
CreateIndexDoneDescriptorOnly(os, s) ==
  [os EXCEPT ![s.index] = [@ EXCEPT !.pendingCreate = FALSE]]

\* The end of addIndexEntry: the pending flags are cleared on the
\* descriptor and on the handle captured by __createIndex.
CreateIndexDone(os, s) ==
  LET wasDeleted == os[s.index].deleted
      clear(o) == IF wasDeleted
                  THEN [o EXCEPT !.pendingCreate = FALSE, !.deleted = FALSE,
                                 !.recreated = TRUE]
                  ELSE [o EXCEPT !.pendingCreate = FALSE]
  IN [i \in 1..Len(os) |->
        IF i = s.index \/ i = s.handle THEN clear(os[i]) ELSE os[i]]

\* --------------------------------------------------- transaction collaborator
\* A step that does not reach its success continuation aborts the owning
\* transaction: the storage transaction rolls back and the live index names
\* return to those of the transaction's start; nothing queued runs later.
AbortTransaction ==
  /\ db' = snapshot.db
  /\ indexNames' = snapshot.indexNames
  /\ tx' = [tx EXCEPT !.active = FALSE, !.errored = TRUE]
  /\ queue' = <<>>

StepResult(s, r, res) ==
  [type |-> s.type, out |-> r.out, err |-> r.err, fault |-> r.fault, step |-> s,
   result |-> res, n |-> lastStep.n + 1]

\* The statements a step can issue, by kind of step: any one of them may be
\* the one the storage backend fails.
CreateFailPoints == 0..(4 + MaxRec)
DeleteFailPoints == 0..2
RenameFailPoints == 0..(6 + Cardinality(Names))
SingleFailPoints == 0..1

\* ------------------------------------------------------- deleteIndex step
\* DROP INDEX IF EXISTS (when storage indexes are in use), then
\* finishDeleteIndex rewrites the index list.
DeleteIndexChain(d, s, f, names, map, os, sqlite) ==
  LET k == IF sqlite THEN 1 ELSE 0
      d1 == IF sqlite THEN [d EXCEPT !.sqlIdx = @ \ {os[s.index].name}] ELSE d
  IN IF sqlite /\ f = 1 THEN Fault(d, "failure", "UnknownError", 1)
     ELSE IF IndexListThrows(names, map) THEN Chain(d1, "none", "TypeError", k)
     ELSE IF f = k + 1 THEN Fault(d1, "failure", "UnknownError", k + 1)
     ELSE Chain(UpdateIndexList(d1, names, map, os), "success", "-", k + 1)

\* The success callback of finishDeleteIndex: recreated is cleared on the
\* descriptor only.
DeleteIndexDone(os, s) ==
  [i \in 1..Len(os) |->
     LET o1 == IF i = s.index
               THEN [os[i] EXCEPT !.pendingDelete = FALSE, !.recreated = FALSE,
                                  !.deleted = TRUE]
               ELSE os[i]
     IN IF i = s.handle
        THEN [o1 EXCEPT !.deleted = TRUE, !.pendingDelete = FALSE]
        ELSE o1]

\* ------------------------------------------------------- renameIndex step
HasDuplicates(q) == \E i, j \in 1..Len(q) : i # j /\ q[i] = q[j]

\* Variant of the rebuild whose INSERT ... SELECT leaves the new column
\* empty (for the sensitivity of C2_RenamePreservesReads).
RebuildWithoutEntries(d, s) ==
  [d EXCEPT
     !.cols = Range(s.preserve) \cup {s.newName},
     !.sqlIdx = {},
     !.rows = [pk \in 1..MaxRec |->
        [d.rows[pk] EXCEPT !.ent = [c \in Names |->
           IF d.rows[pk].present /\ c \in Range(s.preserve) /\ c # s.newName
           THEN d.rows[pk].ent[c] ELSE NULL]]]]

\* The shadow table: key, value, the preserved columns and the new column,
\* filled by one INSERT ... SELECT; DROP TABLE takes every storage index
\* of the old table with it.
Rebuild(d, s) ==
  [d EXCEPT
     !.cols = Range(s.preserve) \cup {s.newName},
     !.sqlIdx = {},
     !.rows = [pk \in 1..MaxRec |->
        [d.rows[pk] EXCEPT !.ent = [c \in Names |->
           IF ~d.rows[pk].present THEN NULL
           ELSE IF c = s.newName THEN d.rows[pk].ent[s.oldName]
           ELSE IF c \in Range(s.preserve) THEN d.rows[pk].ent[c]
           ELSE NULL]]]]

\* The completion callback the name setter passes: __updateIndexList is
\* called without a failure callback.
RenameFinish(d, k, f, names, map, os) ==
  IF IndexListThrows(names, map) THEN Chain(d, "none", "TypeError", k)
  ELSE IF f = k + 1 THEN Fault(d, "none", "SQLError", k + 1)
  ELSE Chain(UpdateIndexList(d, names, map, os), "success", "-", k + 1)

\* CREATE TABLE tmp, INSERT ... SELECT, DROP TABLE, ALTER TABLE RENAME, then
\* (with storage indexes) one CREATE INDEX per preserved index column and
\* the drop and re-creation of the index on "key".  sqlError passes the
\* storage error on as it is.
RenameIndexChain(d, s, f, names, map, os, sqlite) ==
  LET n == Len(s.preserve)
      d4 == Rebuild(d, s)
      d5 == [d4 EXCEPT !.sqlIdx = Range(s.preserve)]
  IN IF f = 1 THEN Fault(d, "failure", "SQLError", 1)
     ELSE IF HasDuplicates(Append(s.preserve, s.newName))
     THEN Chain(d, "failure", "SQLError", 1)
     ELSE IF f = 2 THEN Fault(d, "failure", "SQLError", 2)
     ELSE IF ~d.table \/ ~((Range(s.preserve) \cup {s.oldName}) \subseteq d.cols)
     THEN Chain(d, "failure", "SQLError", 2)
     ELSE IF f \in {3, 4} THEN Fault(d, "failure", "SQLError", f)
     ELSE IF ~sqlite THEN RenameFinish(d4, 4, f, names, map, os)
     ELSE IF f \in 5..(6 + n) THEN Fault(d4, "failure", "SQLError", 6 + n)
     ELSE RenameFinish(d5, 6 + n, f, names, map, os)

\* ------------------------------------------------- reads: build and execute
\* Raw comparison of two stored values (ORDER BY on the encoded column).
RECURSIVE LessEnc(_, _)
LessEnc(x, y) ==
  IF y = <<>> THEN FALSE
  ELSE IF x = <<>> THEN TRUE
  ELSE IF Head(x) # Head(y) THEN Head(x) < Head(y)
  ELSE LessEnc(Tail(x), Tail(y))

\* x occurs in y at (1-based) position from or later.
OccursFrom(x, y, from) ==
  \E i \in from..(Len(y) - Len(x) + 1) : SubSeq(y, i, i + Len(x) - 1) = x

\* The element encodings a run of encoded elements is made of.
RECURSIVE SplitEls(_)
SplitEls(e) ==
  IF e = <<>> THEN <<>>
  ELSE <<SubSeq(e, 1, ElementLen(e))>> \o SplitEls(SubSeq(e, ElementLen(e) + 1, Len(e)))

\* Key.isMultiEntryMatch, the exact re-check: the entry is one of the
\* elements of an encoded array; anything else matches by equality.
IsMultiEntryMatch(encodedEntry, encodedKey) ==
  IF encodedKey # NULL /\ encodedKey[1] = TagArr
  THEN \E el \in Range(SplitEls(SubSeq(encodedKey, 2, Len(encodedKey) - 1))) :
          el = encodedEntry
  ELSE encodedKey = encodedEntry

\* Variant that returns the rows in primary-key order whatever the statement
\* asks for (for the sensitivity of C18_OrderPreserved).
RECURSIVE SortRowsByPrimaryKey(_, _, _, _)
SortRowsByPrimaryKey(S, d, col, ordered) ==
  IF S = {} THEN <<>>
  ELSE LET first == CHOOSE x \in S : \A y \in S \ {x} : x < y
       IN <<first>> \o SortRowsByPrimaryKey(S \ {first}, d, col, ordered)

\* ORDER BY the encoded column; rows with equal stored values, and the rows
\* of a statement without ORDER BY, come in primary-key order.
RECURSIVE SortRows(_, _, _, _)
SortRows(S, d, col, ordered) ==
  IF S = {} THEN <<>>
  ELSE LET first == CHOOSE x \in S : \A y \in S \ {x} :
                      IF ordered /\ d.rows[x].ent[col] # d.rows[y].ent[col]
                      THEN LessEnc(d.rows[x].ent[col], d.rows[y].ent[col])
                      ELSE x < y
       IN <<first>> \o SortRows(S \ {first}, d, col, ordered)

Take(q, n) == SubSeq(q, 1, Min(n, Len(q)))

RECURSIVE SumSeq(_)
SumSeq(q) == IF q = <<>> THEN 0 ELSE Head(q) + SumSeq(Tail(q))

\* The statement buildFetchIndexDataSQL composes, run with the LIMIT that
\* executeFetchIndexData adds: the primary keys of the rows it returns, in
\* order.  s.indexName is index.name as it was when the read was called.
SelectRows(d, s, multiEntry) ==
  LET col == s.indexName
      cond(pk) ==
        /\ d.rows[pk].present
        /\ d.rows[pk].ent[col] # NULL
        /\ s.hasRange =>
             IF multiEntry
             THEN OccursFrom(Encode(s.range, multiEntry), d.rows[pk].ent[col], 1)
             ELSE d.rows[pk].ent[col] = Encode(s.range, FALSE)
      hits == {pk \in 1..MaxRec : cond(pk)}
      ordered == SortRows(hits, d, col, s.opType # "count")
      limit == IF s.nullDisallowed THEN 1 ELSE s.count
  IN IF limit > 0 THEN Take(ordered, limit) ELSE ordered

Result(kind, n, items) == [kind |-> kind, n |-> n, items |-> items]

\* Variant that hands out the stored record where the key is asked for (for
\* the sensitivity of C19_KeyRoundTrip).
DecodeRecordValueOnly(d, pk, opType) ==
  IF opType = "key" THEN [key |-> d.rows[pk].value, value |-> VNone]
  ELSE [key |-> VNone, value |-> d.rows[pk].value]

\* decode: a key read decodes the stored primary key, a value read the
\* stored record.
DecodeRecord(d, pk, opType) ==
  IF opType = "key" THEN [key |-> Decode(d.rows[pk].key), value |-> VNone]
  ELSE [key |-> VNone, value |-> d.rows[pk].value]

\* Variant that takes every row the statement returns, without the exact
\* re-check (for the sensitivity of C13_MultiEntryLookup).
FetchOutcomePrefilterOnly(d, s, index) ==
  LET data == SelectRows(d, s, index.multiEntry)
      records == [i \in 1..Len(data) |-> DecodeRecord(d, data[i], s.opType)]
      recordCount == Len(data)
  IN IF s.opType = "count" THEN Result("count", recordCount, <<>>)
     ELSE IF recordCount = 0
     THEN (IF s.nullDisallowed THEN Result("undefined", 0, <<>>)
           ELSE Result("list", 0, <<>>))
     ELSE IF s.nullDisallowed THEN Result("record", 0, <<records[1]>>)
     ELSE Result("list", 0, records)

\* Variant in which a multiEntry row counts once whatever its key holds (for
\* the sensitivity of C12_MultiEntryCount).
FetchOutcomeRowCount(d, s, index) ==
  LET data == SelectRows(d, s, index.multiEntry)
      encodedKey == Encode(s.range, index.multiEntry)
      rowEnc(pk) == IF index.name = s.indexName
                    THEN d.rows[pk].ent[s.indexName] ELSE NULL
      pushed(pk) ==
        IF ~index.multiEntry THEN TRUE
        ELSE IF s.hasRange THEN IsMultiEntryMatch(encodedKey, rowEnc(pk))
        ELSE rowEnc(pk) # NULL
      kept == SelectSeq(data, pushed)
      records == [i \in 1..Len(kept) |-> DecodeRecord(d, kept[i], s.opType)]
      recordCount == Len(kept)
  IN IF s.opType = "count" THEN Result("count", recordCount, <<>>)
     ELSE IF recordCount = 0
     THEN (IF s.nullDisallowed THEN Result("undefined", 0, <<>>)
           ELSE Result("list", 0, <<>>))
     ELSE IF s.nullDisallowed THEN Result("record", 0, <<records[1]>>)
     ELSE Result("list", 0, records)

\* The success callback of executeFetchIndexData over the returned rows.
\* name is index.name as it is when the step runs.
FetchOutcome(d, s, index) ==
  LET data == SelectRows(d, s, index.multiEntry)
      encodedKey == Encode(s.range, index.multiEntry)
      rowEnc(pk) == IF index.name = s.indexName
                    THEN d.rows[pk].ent[s.indexName] ELSE NULL
      inc(pk) ==
        IF ~index.multiEntry THEN 1
        ELSE IF s.hasRange
        THEN (IF IsMultiEntryMatch(encodedKey, rowEnc(pk)) THEN 1 ELSE 0)
        ELSE IF rowEnc(pk) = NULL THEN 0
        ELSE IF Decode(rowEnc(pk)).kind = "arr"
        THEN Len(Decode(rowEnc(pk)).els) ELSE 1
      pushed(pk) ==
        IF ~index.multiEntry THEN TRUE
        ELSE IF s.hasRange THEN IsMultiEntryMatch(encodedKey, rowEnc(pk))
        ELSE rowEnc(pk) # NULL
      kept == SelectSeq(data, pushed)
      records == [i \in 1..Len(kept) |-> DecodeRecord(d, kept[i], s.opType)]
      recordCount == SumSeq([i \in 1..Len(data) |-> inc(data[i])])
  IN IF s.opType = "count" THEN Result("count", recordCount, <<>>)
     ELSE IF recordCount = 0
     THEN (IF s.nullDisallowed THEN Result("undefined", 0, <<>>)
           ELSE Result("list", 0, <<>>))
     ELSE IF s.nullDisallowed THEN Result("record", 0, <<records[1]>>)
     ELSE Result("list", 0, records)

NoValue == Result("-", 0, <<>>)

\* The queued fetch: one SELECT; a row read under a column name the index
\* no longer has decodes to nothing, and matching against it throws.
ExecuteFetchIndexData(d, s, f, os) ==
  LET index == os[s.index]
  IN IF f = 1 THEN Fault(d, "failure", "SQLError", 1)
     ELSE IF ~d.table \/ s.indexName \notin d.cols
     THEN Chain(d, "failure", "SQLError", 1)
     ELSE IF /\ index.multiEntry /\ s.hasRange /\ index.name # s.indexName
             /\ SelectRows(d, s, TRUE) # <<>>
     THEN Chain(d, "none", "TypeError", 1)
     ELSE Chain(d, "success", "-", 1)

\* ------------------------------------------------------ record storage steps
\* The object store's put: the row is replaced; every index of
\* store.__indexes that is neither pending creation nor deleted gets its
\* encoded key written to the column its __currentName names.
PutTargets(map, os) ==
  {i \in {map[n] : n \in Names} \ {0} : ~os[i].pendingCreate /\ ~os[i].deleted}

PutChain(d, s, f, map, os) ==
  LET T == PutTargets(map, os)
      keyOf(i) == ExtractKey(s.value, os[i].multiEntry)
      encOf(i) == Encode(keyOf(i).value, os[i].multiEntry)
      W == {i \in T : ~keyOf(i).failure}
      clash == \E i \in W : /\ os[i].unique
                            /\ CurrentName(os[i]) \in d.cols
                            /\ \E pk \in PresentKeys(d) \ {s.pk} :
                                 d.rows[pk].ent[CurrentName(os[i])] = encOf(i)
      row == [present |-> TRUE, key |-> Encode(PrimaryKey(s.pk), FALSE),
              value |-> s.value,
              ent |-> [c \in Names |->
                 IF \E i \in W : CurrentName(os[i]) = c
                 THEN encOf(CHOOSE i \in W : CurrentName(os[i]) = c)
                 ELSE NULL]]
  IN IF clash THEN Chain(d, "failure", "ConstraintError", 0)
     ELSE IF f = 1 THEN Fault(d, "failure", "UnknownError", 1)
     ELSE IF ~d.table \/ \E i \in W : CurrentName(os[i]) \notin d.cols
     THEN Chain(d, "failure", "UnknownError", 1)
     ELSE Chain([d EXCEPT !.rows[s.pk] = row], "success", "-", 1)

DeleteRecordChain(d, s, f) ==
  IF f = 1 THEN Fault(d, "failure", "UnknownError", 1)
  ELSE IF ~d.table THEN Chain(d, "failure", "UnknownError", 1)
  ELSE Chain([d EXCEPT !.rows[s.pk] = NoRow], "success", "-", 1)

\* ---------------------------------------------------------------- the calls
Counts == {0, 1}
OpTypes == {"get", "getKey", "getAll", "getAllKeys", "count"}

Live(o) == ~o.deleted /\ ~o.pendingDelete

Spend(kind) ==
  budget' = [budget EXCEPT ![kind] = @ + 1]

Called(op, obj, name, result) ==
  lastCall' = [op |-> op, obj |-> obj, name |-> name, q |-> FALSE,
               result |-> result, n |-> lastCall.n + 1]

Enqueue(s) == queue' = Append(queue, s)

\* IDBTransaction.__assertVersionChange, IDBTransaction.__assertActive
AssertVersionChange == tx.mode = "versionchange"
AssertActive == tx.active

\* Variant of __invalidStateIfDeleted that tests __deleted alone (for the
\* sensitivity of C9_ReadsRejected).
InvalidStateIfDeletedOnly(index) == index.deleted

\* IDBIndex.__invalidStateIfDeleted
InvalidStateIfDeleted(index) ==
  \/ index.deleted
  \/ index.pendingDelete
  \/ (index.pendingCreate /\ tx.errored)

\* IDBObjectStore.__invalidStateIfDeleted, for whatever object it is given:
\* an index instance has no transaction property of its own.
StoreInvalidStateIfDeleted(o, hasTransaction) ==
  \/ o.deleted
  \/ o.pendingDelete
  \/ (o.pendingCreate /\ hasTransaction /\ tx.errored)

\* IDBIndex.__createIndex: register the descriptor, reuse or clone the
\* handle, queue the createIndex step.
DoCreateIndex(n, unique, multiEntry) ==
  LET d == Len(objs) + 1
      index == [NewIndex(n, unique, multiEntry) EXCEPT !.pendingCreate = TRUE]
      h0 == indexHandles[n]
      fresh == \/ h0 = 0
               \/ index.pendingDelete \/ index.deleted
               \/ objs[h0].pendingDelete \/ objs[h0].deleted
      h == IF fresh THEN d + 1 ELSE h0
  IN /\ objs' = IF fresh THEN objs \o <<index, Clone(index)>> ELSE Append(objs, index)
     /\ indexNames' = Append(indexNames, n)
     /\ indexes' = [indexes EXCEPT ![n] = d]
     /\ indexHandles' = [indexHandles EXCEPT ![n] = h]
     /\ Enqueue([NoStep EXCEPT !.type = "createIndex", !.index = d, !.handle = h,
                               !.idx = indexes[n], !.indexName = n])

\* The object store's createIndex: the preconditions, then __createIndex.
CreateIndex(n, unique, multiEntry) ==
  /\ Spend("ops")
  /\ UNCHANGED <<store, tx, db, snapshot, useSQLiteIndexes, lastStep>>
  /\ IF ~AssertVersionChange \/ ~AssertActive \/ store.deleted \/ store.pendingDelete
     THEN /\ Called("createIndex", 0, n, "InvalidStateError")
          /\ UNCHANGED <<objs, indexNames, indexes, indexHandles, queue>>
     ELSE IF indexes[n] # 0 /\ Live(objs[indexes[n]])
     THEN /\ Called("createIndex", 0, n, "ConstraintError")
          /\ UNCHANGED <<objs, indexNames, indexes, indexHandles, queue>>
     ELSE /\ Called("createIndex", Len(objs) + 1, n, "ok")
          /\ DoCreateIndex(n, unique, multiEntry)

\* IDBIndex.__deleteIndex
DoDeleteIndex(i) ==
  LET index == objs[i]
      h == indexHandles[index.name]
  IN /\ objs' = [j \in 1..Len(objs) |->
                   IF j = i \/ j = h THEN [objs[j] EXCEPT !.pendingDelete = TRUE]
                   ELSE objs[j]]
     /\ indexNames' = Splice(indexNames, IndexOf(indexNames, index.name), 1, <<>>)
     /\ UNCHANGED <<indexes, indexHandles>>
     /\ Enqueue([NoStep EXCEPT !.type = "deleteIndex", !.index = i, !.handle = h])

\* The object store's deleteIndex: the preconditions, then __deleteIndex.
DeleteIndex(n) ==
  /\ Spend("ops")
  /\ UNCHANGED <<store, tx, db, snapshot, useSQLiteIndexes, lastStep>>
  /\ IF \/ ~AssertVersionChange \/ ~AssertActive
        \/ store.deleted \/ store.pendingDelete
        \/ (indexes[n] # 0 /\ ~Live(objs[indexes[n]]))
     THEN /\ Called("deleteIndex", indexes[n], n, "InvalidStateError")
          /\ UNCHANGED <<objs, indexNames, indexes, indexHandles, queue>>
     ELSE IF indexes[n] = 0
     THEN /\ Called("deleteIndex", 0, n, "NotFoundError")
          /\ UNCHANGED <<objs, indexNames, indexes, indexHandles, queue>>
     ELSE /\ Called("deleteIndex", indexes[n], n, "ok")
          /\ DoDeleteIndex(indexes[n])

\* The checks the name setter makes before anything else; the object-store
\* check is handed the index itself.
SetNameInvalidState(me) ==
  \/ ~AssertVersionChange
  \/ ~AssertActive
  \/ InvalidStateIfDeleted(me)
  \/ StoreInvalidStateIfDeleted(me, FALSE)

\* Variant of the collision test that takes any descriptor under the new
\* name, a tombstone too, for a collision (for the sensitivity of
\* C7_RenameConstraint).
SetNameConstraintAnyDescriptor(newName) == indexes[newName] # 0

SetNameConstraint(newName) ==
  indexes[newName] # 0 /\ ~objs[indexes[newName]].deleted
                       /\ ~objs[indexes[newName]].pendingDelete

\* The body of the name setter after its checks: the namespace moves at
\* once, the handle found under the old name is renamed and also filed
\* under the new one, and the table rebuild is queued.
DoSetName(o, newName) ==
  LET oldName == objs[o].name
      h == indexHandles[oldName]
      names1 == Splice(indexNames, IndexOf(indexNames, oldName), 1, <<newName>>)
      map1 == [[indexes EXCEPT ![oldName] = 0] EXCEPT ![newName] = o]
      os1 == [objs EXCEPT ![o].name = newName]
  IN /\ indexNames' = names1
     /\ indexes' = map1
     /\ IF h = 0
        THEN \* oldIndexHandle is undefined: the assignment to it throws
             /\ objs' = os1
             /\ UNCHANGED <<indexHandles, queue>>
             /\ Called("setName", o, newName, "TypeError")
        ELSE /\ objs' = [[os1 EXCEPT ![h].name = newName] EXCEPT ![o].pendingName = oldName]
             /\ indexHandles' = [indexHandles EXCEPT ![newName] = h]
             /\ Enqueue([NoStep EXCEPT !.type = "renameIndex", !.index = o,
                           !.oldName = oldName, !.newName = newName,
                           !.preserve = SelectSeq(names1, LAMBDA x : x # newName)])
             /\ Called("setName", o, newName, "ok")

\* index.name = newName
SetName(o, newName) ==
  /\ Spend("ops")
  /\ UNCHANGED <<store, tx, db, snapshot, useSQLiteIndexes, lastStep>>
  /\ IF SetNameInvalidState(objs[o])
     THEN /\ Called("setName", o, newName, "InvalidStateError")
          /\ UNCHANGED <<objs, indexNames, indexes, indexHandles, queue>>
     ELSE IF newName = objs[o].name
     THEN /\ Called("setName", o, newName, "ok")
          /\ UNCHANGED <<objs, indexNames, indexes, indexHandles, queue>>
     ELSE IF SetNameConstraint(newName)
     THEN /\ Called("setName", o, newName, "ConstraintError")
          /\ UNCHANGED <<objs, indexNames, indexes, indexHandles, queue>>
     ELSE DoSetName(o, newName)

\* The checks of __fetchIndexData before the query is looked at.
FetchInvalidState(me) ==
  \/ InvalidStateIfDeleted(me)
  \/ StoreInvalidStateIfDeleted(store, TRUE)
  \/ store.deleted
  \/ ~AssertActive

\* Variant in which only get refuses a null query (for the sensitivity of
\* C10_NullQuery).
NullDisallowedGetOnly(op) == op = "get"

NullDisallowed(op) == op \in {"get", "getKey"}

OpTypeOf(op) ==
  CASE op \in {"get", "getAll"} -> "value"
    [] op \in {"getKey", "getAllKeys"} -> "key"
    [] op = "count" -> "count"

\* What buildFetchIndexDataSQL fixes when the read is called and the queued
\* function later uses: the column name, the key, the kind of result.
FetchRequest(o, name, op, hasQuery, key, count) ==
  [NoStep EXCEPT !.type = "fetch", !.index = o, !.indexName = name,
                 !.hasRange = NullDisallowed(op) \/ hasQuery,
                 !.range = IF hasQuery THEN key ELSE VNone,
                 !.opType = OpTypeOf(op),
                 !.nullDisallowed = NullDisallowed(op),
                 !.count = count]

\* get, getKey, getAll, getAllKeys and count (with a key or no query), all
\* through __fetchIndexData.  hasQuery = FALSE is a null or undefined query.
FetchIndexData(o, op, hasQuery, key, count) ==
  /\ Spend("reads")
  /\ count # 0 => op \in {"getAll", "getAllKeys"}
  /\ ~hasQuery => key = VNum(1)
  /\ UNCHANGED <<objs, indexNames, indexes, indexHandles, store, tx, db,
                 snapshot, useSQLiteIndexes, lastStep>>
  /\ LET result == IF FetchInvalidState(objs[o]) THEN "InvalidStateError"
                   ELSE IF NullDisallowed(op) /\ ~hasQuery THEN "DataError"
                   ELSE "ok"
     IN /\ lastCall' = [op |-> op, obj |-> o, name |-> objs[o].name, q |-> hasQuery,
                        result |-> result, n |-> lastCall.n + 1]
        /\ IF result = "ok"
           THEN Enqueue(FetchRequest(o, objs[o].name, op, hasQuery, key, count))
           ELSE UNCHANGED queue

\* The record calls of the object store (put, delete) only queue a request.
RecordCallAllowed ==
  /\ tx.active /\ tx.mode # "readonly"
  /\ ~store.deleted /\ ~store.pendingDelete

Put(pk, v) ==
  /\ Spend("puts")
  /\ RecordCallAllowed
  /\ Called("put", 0, NoName, "ok")
  /\ Enqueue([NoStep EXCEPT !.type = "put", !.pk = pk, !.value = v])
  /\ UNCHANGED <<objs, indexNames, indexes, indexHandles, store, tx, db,
                 snapshot, useSQLiteIndexes, lastStep>>

DeleteRecord(pk) ==
  /\ Spend("puts")
  /\ RecordCallAllowed
  /\ Called("delete", 0, NoName, "ok")
  /\ Enqueue([NoStep EXCEPT !.type = "delete", !.pk = pk])
  /\ UNCHANGED <<objs, indexNames, indexes, indexHandles, store, tx, db,
                 snapshot, useSQLiteIndexes, lastStep>>

\* The database's deleteObjectStore: the store is pending deletion at once
\* and its teardown is queued.
DeleteObjectStore ==
  /\ Spend("ops")
  /\ AssertVersionChange /\ AssertActive
  /\ ~store.deleted /\ ~store.pendingDelete
  /\ store' = [store EXCEPT !.pendingDelete = TRUE]
  /\ Called("deleteObjectStore", 0, NoName, "ok")
  /\ Enqueue([NoStep EXCEPT !.type = "deleteObjectStore"])
  /\ UNCHANGED <<objs, indexNames, indexes, indexHandles, tx, db,
                 snapshot, useSQLiteIndexes, lastStep>>

\* ---------------------------------------------------------- the queued steps
\* The transaction queue runs the step at its head to completion before the
\* next one; a step that does not call success aborts the transaction.
Finish(s, r, res, os, st) ==
  /\ lastStep' = StepResult(s, r, res)
  /\ IF r.out = "success"
     THEN /\ db' = r.db
          /\ objs' = os
          /\ store' = st
          /\ queue' = Tail(queue)
          /\ UNCHANGED <<indexNames, tx>>
     ELSE /\ AbortTransaction
          /\ UNCHANGED <<objs, store>>
  /\ UNCHANGED <<indexes, indexHandles, snapshot, useSQLiteIndexes, budget, lastCall>>

HeadIs(type) == queue # <<>> /\ Head(queue).type = type

CreateIndexStep(f) ==
  /\ HeadIs("createIndex")
  /\ LET s == Head(queue)
         r == CreateIndexChain(db, s, f, indexNames, indexes, objs, useSQLiteIndexes)
     IN Finish(s, r, NoValue, CreateIndexDone(objs, s), store)

DeleteIndexStep(f) ==
  /\ HeadIs("deleteIndex")
  /\ LET s == Head(queue)
         r == DeleteIndexChain(db, s, f, indexNames, indexes, objs, useSQLiteIndexes)
     IN Finish(s, r, NoValue, DeleteIndexDone(objs, s), store)

\* On success the completion callback deletes __pendingName of the store
\* handle.
RenameIndexStep(f) ==
  /\ HeadIs("renameIndex")
  /\ LET s == Head(queue)
         r == RenameIndexChain(db, s, f, indexNames, indexes, objs, useSQLiteIndexes)
     IN Finish(s, r, NoValue, objs, [store EXCEPT !.pendingName = NoName])

FetchStep(f) ==
  /\ HeadIs("fetch")
  /\ LET s == Head(queue)
         r == ExecuteFetchIndexData(db, s, f, objs)
     IN Finish(s, r, IF r.out = "success" THEN FetchOutcome(db, s, objs[s.index])
                     ELSE NoValue, objs, store)

PutStep(f) ==
  /\ HeadIs("put")
  /\ LET s == Head(queue)
     IN Finish(s, PutChain(db, s, f, indexes, objs), NoValue, objs, store)

DeleteRecordStep(f) ==
  /\ HeadIs("delete")
  /\ LET s == Head(queue)
     IN Finish(s, DeleteRecordChain(db, s, f), NoValue, objs, store)

\* The store's teardown: its table is dropped with everything on it.
DeleteObjectStoreStep ==
  /\ HeadIs("deleteObjectStore")
  /\ LET s == Head(queue)
         d == [db EXCEPT !.table = FALSE, !.cols = {}, !.sqlIdx = {},
                         !.rows = [pk \in 1..MaxRec |-> NoRow], !.sys = EmptySys]
     IN Finish(s, Chain(d, "success", "-", 1), NoValue, objs,
               [store EXCEPT !.pendingDelete = FALSE, !.deleted = TRUE])

\* The transaction finishes once nothing is queued.
Commit ==
  /\ tx.active /\ queue = <<>>
  /\ tx' = [tx EXCEPT !.active = FALSE]
  /\ UNCHANGED <<objs, indexNames, indexes, indexHandles, store, queue, db,
                 snapshot, useSQLiteIndexes, budget, lastCall, lastStep>>

\* -------------------------------------------------------------- initial state
\* The column an index on the store's records holds once backfilled.
Backfilled(rows, c, multiEntry) ==
  [pk \in 1..MaxRec |->
     [rows[pk] EXCEPT !.ent[c] =
        IF rows[pk].present /\ ~ExtractKey(rows[pk].value, multiEntry).failure
        THEN Encode(ExtractKey(rows[pk].value, multiEntry).value, multiEntry)
        ELSE NULL]]

RowsOf(v1, v2) ==
  [pk \in 1..MaxRec |->
     [present |-> TRUE, key |-> Encode(PrimaryKey(pk), FALSE),
      value |-> IF pk = 1 THEN v1 ELSE v2, ent |-> EmptyEnt]]

\* The record sets a run starts from: two records with equal keys, one
\* record without a valid key, array keys.
InitRows ==
  {RowsOf(VNum(1), VNum(1)), RowsOf(VNum(1), VNone),
   RowsOf(VArr(<<1, 2>>), VNum(2)), RowsOf(VArr(<<1, 2>>), VArr(<<1, 2>>))}

InitCommon ==
  /\ store = [pendingCreate |-> FALSE, pendingDelete |-> FALSE, deleted |-> FALSE,
              pendingName |-> NoName]
  /\ queue = <<>>
  /\ budget = [ops |-> 0, reads |-> 0, puts |-> 0]
  /\ lastCall = NoCall
  /\ lastStep = NoResult
  /\ snapshot = [db |-> db, indexNames |-> indexNames,
                 loaded |-> {indexes[n] : n \in Names} \ {0}]

\* A store without indexes.
EmptyStore(rows) ==
  /\ objs = <<>>
  /\ indexNames = <<>>
  /\ indexes = [n \in Names |-> 0]
  /\ indexHandles = [n \in Names |-> 0]
  /\ db = [table |-> TRUE, cols |-> {}, rows |-> rows, sqlIdx |-> {}, sys |-> EmptySys]

\* A store with one committed, non-unique index "a" whose handle has been
\* obtained from the store.
IndexedStore(rows, multiEntry) ==
  /\ objs = <<NewIndex("a", FALSE, multiEntry), NewIndex("a", FALSE, multiEntry)>>
  /\ indexNames = <<"a">>
  /\ indexes = [n \in Names |-> IF n = "a" THEN 1 ELSE 0]
  /\ indexHandles = [n \in Names |-> IF n = "a" THEN 2 ELSE 0]
  /\ db = [table |-> TRUE, cols |-> {"a"},
           rows |-> Backfilled(rows, "a", multiEntry),
           sqlIdx |-> IF useSQLiteIndexes THEN {"a"} ELSE {},
           sys |-> [EmptySys EXCEPT !["a"] =
                      [present |-> TRUE, unique |-> FALSE,
                       multiEntry |-> multiEntry, deleted |-> FALSE]]]

\* A store with two committed, non-unique indexes, "a" and "c", and their
\* handles.
TwoIndexStore(rows, multiEntry) ==
  /\ objs = <<NewIndex("a", FALSE, multiEntry), NewIndex("a", FALSE, multiEntry),
              NewIndex("c", FALSE, FALSE), NewIndex("c", FALSE, FALSE)>>
  /\ indexNames = <<"a", "c">>
  /\ indexes = [n \in Names |-> IF n = "a" THEN 1 ELSE IF n = "c" THEN 3 ELSE 0]
  /\ indexHandles = [n \in Names |-> IF n = "a" THEN 2 ELSE IF n = "c" THEN 4 ELSE 0]
  /\ db = [table |-> TRUE, cols |-> {"a", "c"},
           rows |-> Backfilled(Backfilled(rows, "a", multiEntry), "c", FALSE),
           sqlIdx |-> IF useSQLiteIndexes THEN {"a", "c"} ELSE {},
           sys |-> [n \in Names |->
                      IF n \in {"a", "c"}
                      THEN [present |-> TRUE, unique |-> FALSE,
                            multiEntry |-> n = "a" /\ multiEntry, deleted |-> FALSE]
                      ELSE NoSys]]

Upgrade == [mode |-> "versionchange", active |-> TRUE, errored |-> FALSE]
ReadOnly == [mode |-> "readonly", active |-> TRUE, errored |-> FALSE]

\* ------------------------------------------------------- the specifications
\* The names the calls of a run are made with.
CallNames == {"a", "b"}

CreateCalls ==
  \E n \in CallNames, unique, multiEntry \in BOOLEAN :
     CreateIndex(n, unique, multiEntry)
DeleteCalls == \E n \in CallNames : DeleteIndex(n)
\* The instances a caller can hold: what createIndex returned and the handles
\* of the store.  A descriptor loaded from the persisted index list is
\* handed to nobody.
Callable == ObjIds \ snapshot.loaded
SetNameCalls == \E o \in Callable, n \in CallNames : SetName(o, n)
FetchCalls ==
  \E o \in Callable, op \in OpTypes, hasQuery \in BOOLEAN, key \in QueryKeys,
     count \in Counts : FetchIndexData(o, op, hasQuery, key, count)
PutValues == {VNone, VNum(2)}
PutCalls == \E pk \in 1..MaxRec, v \in PutValues : Put(pk, v)
DeleteRecordCalls == \E pk \in 1..MaxRec : DeleteRecord(pk)

LifecycleSteps ==
  \/ \E f \in CreateFailPoints : CreateIndexStep(f)
  \/ \E f \in DeleteFailPoints : DeleteIndexStep(f)
  \/ \E f \in RenameFailPoints : RenameIndexStep(f)
  \/ DeleteObjectStoreStep
  \/ Commit

\* Every call and every step, a few calls deep: an upgrade of an empty
\* store, or a read-only transaction over an indexed one.
Init ==
  /\ useSQLiteIndexes \in BOOLEAN
  /\ \E rows \in InitRows :
       \/ tx = Upgrade /\ EmptyStore(rows)
       \/ tx = ReadOnly /\ \E multiEntry \in BOOLEAN : IndexedStore(rows, multiEntry)
  /\ InitCommon

Next ==
  \/ budget.ops < MaxOps /\ CreateCalls
  \/ budget.ops < MaxOps /\ DeleteCalls
  \/ budget.ops < MaxOps /\ SetNameCalls
  \/ budget.ops < MaxOps /\ DeleteObjectStore
  \/ budget.reads < MaxReads /\ FetchCalls
  \/ LifecycleSteps
  \/ \E f \in SingleFailPoints : FetchStep(f)

Spec == Init /\ [][Next]_vars

\* The index lifecycle alone, more calls deep: creates, renames and deletes
\* in one upgrade transaction, on an empty or an already indexed store.
InitLifecycle ==
  /\ useSQLiteIndexes \in BOOLEAN
  /\ tx = Upgrade
  /\ \/ EmptyStore(RowsOf(VNum(1), VNone))
     \/ IndexedStore(RowsOf(VNum(1), VNone), FALSE)
  /\ InitCommon

NextLifecycle ==
  \/ budget.ops < MaxLifecycleOps /\ CreateCalls
  \/ budget.ops < MaxLifecycleOps /\ DeleteCalls
  \/ budget.ops < MaxLifecycleOps /\ SetNameCalls
  \/ budget.ops < MaxLifecycleOps /\ DeleteObjectStore
  \/ LifecycleSteps

SpecLifecycle == InitLifecycle /\ [][NextLifecycle]_vars

\* The lifecycle over changing records: creates, renames and deletes mixed
\* with puts and deletes of records, from every initial record set.
InitData ==
  /\ useSQLiteIndexes \in BOOLEAN
  /\ tx = Upgrade
  /\ \E rows \in InitRows : EmptyStore(rows)
  /\ InitCommon

NextData ==
  \/ budget.ops < MaxDataOps /\ CreateCalls
  \/ budget.ops < MaxDataOps /\ DeleteCalls
  \/ budget.ops < MaxDataOps /\ SetNameCalls
  \/ budget.puts < MaxPuts /\ PutCalls
  \/ budget.puts < MaxPuts /\ DeleteRecordCalls
  \/ \E f \in CreateFailPoints : CreateIndexStep(f)
  \/ \E f \in DeleteFailPoints : DeleteIndexStep(f)
  \/ \E f \in RenameFailPoints : RenameIndexStep(f)
  \/ \E f \in SingleFailPoints : PutStep(f)
  \/ \E f \in SingleFailPoints : DeleteRecordStep(f)
  \/ Commit

SpecData == InitData /\ [][NextData]_vars

\* Renames over changing records, on a store that starts with two indexes:
\* any index renamed to any name, the other index possibly deleted.
InitRename ==
  /\ useSQLiteIndexes \in BOOLEAN
  /\ tx = Upgrade
  /\ \E rows \in InitRows, multiEntry \in BOOLEAN : TwoIndexStore(rows, multiEntry)
  /\ InitCommon

NextRename ==
  \/ budget.ops < MaxRenameOps /\ \E o \in Callable, n \in Names : SetName(o, n)
  \/ budget.ops < MaxRenameOps /\ DeleteIndex("c")
  \/ budget.puts < MaxPuts /\ PutCalls
  \/ budget.puts < MaxPuts /\ DeleteRecordCalls
  \/ \E f \in RenameFailPoints : RenameIndexStep(f)
  \/ \E f \in DeleteFailPoints : DeleteIndexStep(f)
  \/ \E f \in SingleFailPoints : PutStep(f)
  \/ \E f \in SingleFailPoints : DeleteRecordStep(f)
  \/ Commit

SpecRename == InitRename /\ [][NextRename]_vars

\* Columns over the lifecycle: creates, deletes and renames over all three
\* names on a store that starts with two indexes, so that a rebuild can run
\* between the deletion of an index and its re-creation.
InitColumns ==
  /\ useSQLiteIndexes \in BOOLEAN
  /\ tx = Upgrade
  /\ TwoIndexStore(RowsOf(VNum(1), VNone), FALSE)
  /\ InitCommon

NextColumns ==
  \/ budget.ops < MaxColumnOps /\ \E n \in Names : CreateIndex(n, FALSE, FALSE)
  \/ budget.ops < MaxColumnOps /\ \E n \in Names : DeleteIndex(n)
  \/ budget.ops < MaxColumnOps /\ \E o \in Callable, n \in Names : SetName(o, n)
  \/ \E f \in CreateFailPoints : CreateIndexStep(f)
  \/ \E f \in DeleteFailPoints : DeleteIndexStep(f)
  \/ \E f \in RenameFailPoints : RenameIndexStep(f)
  \/ Commit

SpecColumns == InitColumns /\ [][NextColumns]_vars

\* Reads alone, over keys of every category: a read-only transaction on a
\* store with one plain or multiEntry index "a".  Arrays are non-empty: how
\* an empty array is stored under multiEntry is fixed by the codec alone.
ReadValues ==
  {VNone, VNum(-1), VNum(1), VNum(2), VDate(1), VBin(<<1>>), VStr(<<1>>),
   VStr(<<1, 2>>), VArr(<<1>>), VArr(<<1, 2>>), VArr(<<1, 2, 2, 3>>),
   VArrOf(<<VStr(<<1>>), VNum(2)>>), VArrOf(<<VStr(<<1, 2>>)>>),
   VArrOf(<<VArr(<<1, 2>>)>>)}
ReadQueryKeys ==
  {VNum(1), VNum(2), VNum(3), VDate(1), VBin(<<1>>), VStr(<<1>>), VStr(<<2>>),
   VStr(<<1, 2>>), VArr(<<1, 2>>)}
ReadRows == {RowsOf(v1, v2) : v1, v2 \in ReadValues}

ReadCalls ==
  \E o \in Callable, op \in OpTypes, hasQuery \in BOOLEAN, key \in ReadQueryKeys,
     count \in Counts : FetchIndexData(o, op, hasQuery, key, count)

InitReads ==
  /\ useSQLiteIndexes \in BOOLEAN
  /\ tx = ReadOnly
  /\ \E rows \in ReadRows, multiEntry \in BOOLEAN : IndexedStore(rows, multiEntry)
  /\ InitCommon

NextReads ==
  \/ budget.reads < MaxReads /\ ReadCalls
  \/ \E f \in SingleFailPoints : FetchStep(f)
  \/ Commit

SpecReads == InitReads /\ [][NextReads]_vars


\* ================================================================ properties
\* The transitions the properties speak about, read off lastCall and lastStep.
SetNameAttempted == lastCall'.n # lastCall.n /\ lastCall'.op = "setName"
RenameAccepted ==
  /\ SetNameAttempted
  /\ lastCall'.result = "ok"
  /\ lastCall'.name # objs[lastCall'.obj].name
DeleteAccepted ==
  lastCall'.n # lastCall.n /\ lastCall'.op = "deleteIndex" /\ lastCall'.result = "ok"
FetchAttempted == lastCall'.n # lastCall.n /\ lastCall'.op \in OpTypes
StepSucceeded(type) ==
  HeadIs(type) /\ lastStep'.n # lastStep.n /\ lastStep'.out = "success"

\* ------------------------------------------------------------------------ C1
\* Two records of the table whose extracted keys encode alike.
EqualKeys(d, index) ==
  \E p, q \in PresentKeys(d) :
     /\ p # q
     /\ ~ExtractKey(d.rows[p].value, index.multiEntry).failure
     /\ ~ExtractKey(d.rows[q].value, index.multiEntry).failure
     /\ Encode(ExtractKey(d.rows[p].value, index.multiEntry).value, index.multiEntry)
          = Encode(ExtractKey(d.rows[q].value, index.multiEntry).value, index.multiEntry)

\* C1: the create step of a unique index (one that still has the name it
\* was created with), run over a store holding two records with equal
\* encoded index keys, calls its failure continuation,
\* with ConstraintError unless the storage backend failed a statement first;
\* afterwards the name is in neither the live index names nor the persisted
\* index list and no row holds an entry in the index column.
C1_UniqueCreateFails ==
  [][(/\ HeadIs("createIndex") /\ lastStep'.n # lastStep.n
      /\ objs[Head(queue).index].unique
      /\ objs[Head(queue).index].name = Head(queue).indexName
      /\ EqualKeys(db, objs[Head(queue).index]))
     => LET name == Head(queue).indexName
        IN /\ lastStep'.out = "failure"
           /\ lastStep'.err = "ConstraintError" \/ lastStep'.fault
           /\ name \notin Range(indexNames')
           /\ ~db'.sys[name].present
           /\ \A pk \in 1..MaxRec : db'.rows[pk].ent[name] = NULL]_vars

\* A create step has failed with ConstraintError on a unique index.
C1_Witness ==
  /\ lastStep.type = "createIndex"
  /\ lastStep.out = "failure" /\ lastStep.err = "ConstraintError"
  /\ objs[lastStep.step.index].unique

\* ------------------------------------------------------------------------ C2
\* Every read that can be queued: get and getKey with a key, getAll,
\* getAllKeys and count with a key or without, getAll and getAllKeys with a
\* count.
ReadRequests ==
  {FetchRequest(0, NoName, op, hasQuery, key, count) :
     op \in OpTypes, hasQuery \in BOOLEAN, key \in QueryKeys, count \in Counts}

\* What the read r returns through an index named col on table d.
ReadVia(d, col, multiEntry, r) ==
  LET s == [r EXCEPT !.indexName = col]
      index == [name |-> col, multiEntry |-> multiEntry]
  IN IF ~d.table \/ col \notin d.cols THEN Result("error", 0, <<>>)
     ELSE FetchOutcome(d, s, index)

\* The columns of the live indexes other than the one the rename step s
\* renames: those of the indexes in the live names that are under the name
\* their column has.
OtherLiveColumns(s) ==
  {c \in (Range(indexNames) \cap db.cols) \ {s.oldName, s.newName} :
     /\ indexes[c] \notin {0, s.index}
     /\ objs[indexes[c]].pendingName = NoName}

\* C2: when the rename step from a to b succeeds, every read through b
\* returns what the same read through a returned just before the step: the
\* rebuild carries over each row's presence and value, the renamed column's
\* entries, and the column of every other live index.
C2_RenamePreservesReads ==
  [][StepSucceeded("renameIndex") =>
       LET s == Head(queue)
           m == objs[s.index].multiEntry
       IN /\ \A r \in ReadRequests :
               ReadVia(db', s.newName, m, r) = ReadVia(db, s.oldName, m, r)
          /\ \A pk \in 1..MaxRec :
               /\ db'.rows[pk].present = db.rows[pk].present
               /\ db'.rows[pk].value = db.rows[pk].value
               /\ db'.rows[pk].ent[s.newName] = db.rows[pk].ent[s.oldName]
          /\ \A c \in OtherLiveColumns(s) :
               /\ c \in db'.cols
               /\ \A pk \in 1..MaxRec : db'.rows[pk].ent[c] = db.rows[pk].ent[c]]_vars

\* A rename step has succeeded on a table with another live index column,
\* where the renamed column holds entries.
C2_Witness ==
  /\ lastStep.type = "renameIndex" /\ lastStep.out = "success"
  /\ queue = <<>>
  /\ \E pk \in 1..MaxRec : db.rows[pk].ent[lastStep.step.newName] # NULL
  /\ \E c \in Range(indexNames) \ {lastStep.step.newName} :
       /\ indexes[c] \notin {0, lastStep.step.index}
       /\ \E pk \in 1..MaxRec : db.rows[pk].ent[c] # NULL

\* ------------------------------------------------------------------------ C3
\* C3: immediately after a rename from a to b is accepted (its rebuild step
\* still queued), the index-names list holds b in a's former position, the
\* descriptor map has the index under b and nothing under a, and the
\* index-handle map has the handle under b and no longer under a.
C3_NamespaceMovesAtOnce ==
  [][RenameAccepted =>
       LET o == lastCall'.obj
           a == objs[o].name
           b == lastCall'.name
       IN /\ Len(indexNames') = Len(indexNames)
          /\ IndexOf(indexNames', b) = IndexOf(indexNames, a)
          /\ a \notin Range(indexNames')
          /\ indexes'[b] = o /\ indexes'[a] = 0
          /\ indexHandles'[b] = indexHandles[a]
          /\ indexHandles'[a] = 0]_vars

\* ------------------------------------------------------------------------ C4
\* The create step at the head of the queue recreates a deleted index of
\* the same name and options whose column is still in the table.
Recreates(s) ==
  /\ s.idx # 0
  /\ objs[s.idx].deleted
  /\ objs[s.idx].unique = objs[s.index].unique
  /\ objs[s.idx].multiEntry = objs[s.index].multiEntry
  /\ objs[s.index].name = s.indexName
  /\ s.indexName \in db.cols

\* C4: the create step of an index recreated under the name and options of
\* a deleted one reuses the column: it adds none, ends in no storage error
\* of its own making, and on success the column holds exactly what a fresh
\* backfill of the current records gives (the encoded key of each record
\* with a valid key, nothing for the others).
C4_RecreateReusesColumn ==
  [][(/\ HeadIs("createIndex") /\ lastStep'.n # lastStep.n
      /\ Recreates(Head(queue)))
     => LET s == Head(queue)
            fresh == Backfilled(db.rows, s.indexName, objs[s.index].multiEntry)
        IN /\ lastStep'.err = "UnknownError" => lastStep'.fault
           /\ lastStep'.out = "success" =>
                /\ db'.cols = db.cols
                /\ \A pk \in 1..MaxRec :
                     db'.rows[pk].ent[s.indexName] = fresh[pk].ent[s.indexName]]_vars

\* An index has been recreated over its old column after a put took a
\* record's key away: the recreated column has no entry for that record.
C4_Witness ==
  /\ lastStep.type = "createIndex" /\ lastStep.out = "success"
  /\ lastStep.step.idx # 0 /\ objs[lastStep.step.idx].deleted
  /\ lastCall.op = "createIndex" /\ queue = <<>>
  /\ \E pk \in 1..MaxRec :
       /\ snapshot.db.rows[pk].value # VNone
       /\ db.rows[pk].present
       /\ db.rows[pk].value = VNone
       /\ db.rows[pk].ent[lastStep.step.indexName] = NULL
  /\ \E pk \in 1..MaxRec : db.rows[pk].ent[lastStep.step.indexName] # NULL

\* ------------------------------------------------------------------------ C5
\* C5: an accepted rename records pendingName = old name on the index, and
\* once its rebuild step (physical rename and index-list update) has
\* succeeded, with no further rename of that index queued, the index has no
\* pendingName.
C5_PendingNameCleared ==
  [][/\ RenameAccepted =>
          objs'[lastCall'.obj].pendingName = objs[lastCall'.obj].name
     /\ StepSucceeded("renameIndex") =>
          \/ \E i \in 2..Len(queue) : /\ queue[i].type = "renameIndex"
                                      /\ queue[i].index = Head(queue).index
          \/ objs'[Head(queue).index].pendingName = NoName]_vars

\* ------------------------------------------------------------------------ C6
\* C6: setting the name (to a different or to the same name) raises
\* InvalidStateError and changes nothing whenever the index is deleted or
\* pending deletion, its object store is deleted or pending deletion, the
\* transaction is not a version change, or the transaction is not active.
C6_RenameInvalidState ==
  [][(/\ SetNameAttempted
      /\ \/ objs[lastCall'.obj].deleted \/ objs[lastCall'.obj].pendingDelete
         \/ store.deleted \/ store.pendingDelete
         \/ tx.mode # "versionchange" \/ ~tx.active)
     => lastCall'.result = "InvalidStateError" /\ UNCHANGED storeVars]_vars

\* ------------------------------------------------------------------------ C7
\* C7: a rename to a different name that passes the state checks raises
\* ConstraintError, leaving names, maps and queue as they were, exactly when
\* the descriptor map holds under the new name a descriptor that is neither
\* deleted nor pending deletion; onto a tombstone's name it is accepted.
C7_RenameConstraint ==
  [][(/\ SetNameAttempted
      /\ lastCall'.result # "InvalidStateError"
      /\ lastCall'.name # objs[lastCall'.obj].name)
     => LET o == lastCall'.obj
            b == lastCall'.name
            liveB == /\ indexes[b] # 0
                     /\ ~objs[indexes[b]].deleted
                     /\ ~objs[indexes[b]].pendingDelete
        IN /\ lastCall'.result = "ConstraintError" <=> liveB
           /\ liveB => UNCHANGED <<objs, indexNames, indexes, indexHandles, queue>>
           /\ ~liveB => /\ lastCall'.result = "ok"
                        /\ objs'[o].name = b
                        /\ indexes'[b] = o
                        /\ Len(queue') = Len(queue) + 1]_vars

\* A rename was refused because a live index holds the new name.
C7_Witness == lastCall.op = "setName" /\ lastCall.result = "ConstraintError"

\* ------------------------------------------------------------------------ C8
\* C8: an accepted deleteIndex removes the name from the live index names
\* and sets pendingDelete on the descriptor and its handle; when the delete
\* step succeeds both have deleted set and pendingDelete and recreated
\* cleared; no index instance ever has pendingDelete and deleted together.
C8_DeleteFlags ==
  [][/\ DeleteAccepted =>
          LET o == lastCall'.obj
              h == indexHandles[objs[o].name]
          IN /\ objs[o].name \notin Range(indexNames')
             /\ objs'[o].pendingDelete
             /\ h # 0 => objs'[h].pendingDelete
     /\ StepSucceeded("deleteIndex") =>
          \A i \in {Head(queue).index, Head(queue).handle} \ {0} :
             /\ objs'[i].deleted
             /\ ~objs'[i].pendingDelete
             /\ ~objs'[i].recreated
     /\ \A i \in 1..Len(objs') : ~(objs'[i].pendingDelete /\ objs'[i].deleted)]_vars

\* ------------------------------------------------------------------------ C9
\* C9: get, getKey, getAll, getAllKeys and count called on an index that is
\* deleted, pending deletion, pending creation in an errored transaction,
\* or whose object store is deleted, raise InvalidStateError and queue
\* nothing.
C9_ReadsRejected ==
  [][(/\ FetchAttempted
      /\ \/ objs[lastCall'.obj].deleted
         \/ objs[lastCall'.obj].pendingDelete
         \/ (objs[lastCall'.obj].pendingCreate /\ tx.errored)
         \/ store.deleted)
     => lastCall'.result = "InvalidStateError" /\ UNCHANGED storeVars]_vars

\* A read was refused on an index after its delete step, in a transaction
\* that is still active.
C9_Witness ==
  /\ lastCall.op \in OpTypes
  /\ lastCall.result = "InvalidStateError"
  /\ objs[lastCall.obj].deleted
  /\ tx.active /\ ~store.deleted /\ ~store.pendingDelete

\* ----------------------------------------------------------------------- C10
\* C10: on a live index of a live store in an active transaction, get and
\* getKey with a null or undefined query raise DataError and queue nothing;
\* getAll, getAllKeys and count with no query raise no DataError and are
\* queued.
C10_NullQuery ==
  [][(/\ FetchAttempted
      /\ ~lastCall'.q
      /\ Live(objs[lastCall'.obj]) /\ ~objs[lastCall'.obj].pendingCreate
      /\ ~store.deleted /\ ~store.pendingDelete
      /\ tx.active)
     => IF lastCall'.op \in {"get", "getKey"}
        THEN lastCall'.result = "DataError" /\ UNCHANGED storeVars
        ELSE /\ lastCall'.result = "ok"
             /\ Len(queue') = Len(queue) + 1
             /\ ~queue'[Len(queue')].hasRange]_vars

\* getKey was called without a query and refused.
C10_Witness ==
  /\ lastCall.op = "getKey" /\ ~lastCall.q
  /\ lastCall.result = "DataError"

\* ----------------------------------------------------------------------- C11
\* What the key path of a record yields has an entry in the index, and the
\* entry matches the query: for a multiEntry index an array matches by any
\* of its elements, every other key by equality.
HasEntry(v, multiEntry) ==
  /\ v.kind # "none"
  /\ (multiEntry /\ v.kind = "arr") => v.els # <<>>
MatchesQuery(v, multiEntry, hasQuery, k) ==
  /\ HasEntry(v, multiEntry)
  /\ hasQuery =>
       IF multiEntry /\ v.kind = "arr"
       THEN \E i \in 1..Len(v.els) : v.els[i] = k
       ELSE v = k
Matching(d, s, multiEntry) ==
  {pk \in PresentKeys(d) : MatchesQuery(d.rows[pk].value, multiEntry, s.hasRange, s.range)}
FetchSucceeded ==
  HeadIs("fetch") /\ lastStep'.n # lastStep.n /\ lastStep'.out = "success"

\* C11: a read that succeeds when no index entry matches the query gives
\* undefined (get, getKey), an empty sequence (getAll, getAllKeys) or 0
\* (count); when some record has a matching entry, get and getKey give a
\* record and getAll and getAllKeys a non-empty sequence, for plain and
\* multiEntry indexes alike.
C11_EmptyResults ==
  [][FetchSucceeded =>
       LET s == Head(queue)
           r == lastStep'.result
           none == Matching(db, s, objs[s.index].multiEntry) = {}
       IN CASE s.opType = "count" -> r.kind = "count" /\ (none => r.n = 0)
            [] s.nullDisallowed ->
                 r.kind = (IF none THEN "undefined" ELSE "record")
            [] OTHER -> r.kind = "list" /\ (none <=> r.items = <<>>)]_vars

\* ----------------------------------------------------------------------- C12
\* The number of distinct elements of an array, 1 for any other key.
DistinctElements(v) ==
  IF v.kind = "arr" THEN Cardinality({v.els[i] : i \in 1..Len(v.els)}) ELSE 1

RECURSIVE EntryCount(_, _)
EntryCount(d, S) ==
  IF S = {} THEN 0
  ELSE LET pk == CHOOSE x \in S : TRUE
       IN DistinctElements(d.rows[pk].value) + EntryCount(d, S \ {pk})

\* C12: on a multiEntry index count() without a query is the sum, over the
\* records that have an entry, of the number of distinct elements of the
\* record's array key (1 for a key that is not an array).
C12_MultiEntryCount ==
  [][(/\ FetchSucceeded
      /\ Head(queue).opType = "count" /\ ~Head(queue).hasRange
      /\ objs[Head(queue).index].multiEntry)
     => lastStep'.result.n =
          EntryCount(db, {pk \in PresentKeys(db) : HasEntry(db.rows[pk].value, TRUE)})]_vars

\* count() came to 3 for one record whose key path yields [1, 2, 2, 3].
C12_Witness ==
  /\ lastStep.type = "fetch" /\ lastStep.out = "success"
  /\ lastStep.step.opType = "count" /\ ~lastStep.step.hasRange
  /\ objs[lastStep.step.index].multiEntry
  /\ db.rows[1].value = VArr(<<1, 2, 2, 3>>)
  /\ \A pk \in PresentKeys(db) \ {1} : db.rows[pk].value = VNone
  /\ lastStep.result.n = 3

EngineSteps == {"createIndex", "deleteIndex", "renameIndex", "fetch"}

\* C14: every step of the engine that runs ends by invoking its success or
\* its failure continuation, whatever statement of it fails, the index list
\* update after a rename rebuild included.
C14_OneContinuation ==
  [][(lastStep'.n # lastStep.n /\ lastStep'.type \in EngineSteps)
     => lastStep'.out \in {"success", "failure"}]_vars

\* ----------------------------------------------------------------------- C15
\* C15: when a storage statement fails during a create, delete or rename
\* step, the step ends there, success is not invoked and the failure
\* continuation receives an UnknownError.
C15_StorageFailureWrapped ==
  [][(/\ lastStep'.n # lastStep.n
      /\ lastStep'.type \in {"createIndex", "deleteIndex", "renameIndex"}
      /\ lastStep'.fault)
     => lastStep'.out = "failure" /\ lastStep'.err = "UnknownError"]_vars

\* ----------------------------------------------------------------------- C16
\* C16: while the rebuild of a rename is still queued, no step that runs
\* writes the rename's new name into the persisted index list.
C16_NewNameAfterRebuild ==
  [][lastStep'.n # lastStep.n
     => \A i \in 1..Len(queue') :
          queue'[i].type = "renameIndex"
          => (db'.sys[queue'[i].newName].present
              => db.sys[queue'[i].newName].present)]_vars

\* ----------------------------------------------------------------------- C17
\* Every step that ran succeeded and nothing is queued.
AllStepsSucceeded ==
  /\ queue = <<>> /\ tx.active /\ ~tx.errored
  /\ ~store.deleted /\ ~store.pendingDelete
  /\ lastStep.type \in {"createIndex", "deleteIndex", "renameIndex"}

\* C17: once all queued create, rename and delete steps have succeeded, the
\* persisted index list maps exactly the live index names of the store to
\* their unique and multiEntry properties and deleted flag, the recorded
\* flag being the descriptor's deleted state.
C17_IndexListInSync ==
  AllStepsSucceeded =>
    \A n \in Names :
       IF n \in Range(indexNames)
       THEN /\ db.sys[n].present
            /\ indexes[n] # 0
            /\ db.sys[n].unique = objs[indexes[n]].unique
            /\ db.sys[n].multiEntry = objs[indexes[n]].multiEntry
            /\ db.sys[n].deleted = objs[indexes[n]].deleted
       ELSE ~db.sys[n].present

\* ----------------------------------------------------------------------- C20
\* C20: whenever the create step at the head of the queue skips ALTER TABLE
\* ADD because it takes the column for existing (the descriptor formerly
\* under the name is deleted or recreated), the table has a column of that
\* name.
C20_SkippedColumnExists ==
  (/\ HeadIs("createIndex") /\ tx.active
   /\ Head(queue).idx # 0
   /\ (objs[Head(queue).idx].deleted \/ objs[Head(queue).idx].recreated))
  => Head(queue).indexName \in db.cols

\* ----------------------------------------------------------------------- C18
\* The logical order of keys: by category (number, date, binary, string,
\* array), numbers and dates by value, strings and blobs by code points,
\* arrays element by element, a proper prefix before what extends it.
CatRank(k) ==
  CASE k.kind = "num" -> 1
    [] k.kind = "date" -> 2
    [] k.kind = "bin" -> 3
    [] k.kind = "str" -> 4
    [] k.kind = "arr" -> 5

RECURSIVE SeqLess(_, _)
SeqLess(s, u) ==
  IF u = <<>> THEN FALSE
  ELSE IF s = <<>> THEN TRUE
  ELSE IF Head(s) # Head(u) THEN Head(s) < Head(u)
  ELSE SeqLess(Tail(s), Tail(u))

ScalarLess(a, b) ==
  IF CatRank(a) # CatRank(b) THEN CatRank(a) < CatRank(b)
  ELSE IF a.kind \in {"num", "date"} THEN a.n < b.n
  ELSE SeqLess(a.chars, b.chars)

RECURSIVE ArrLess(_, _)
ArrLess(s, u) ==
  IF u = <<>> THEN FALSE
  ELSE IF s = <<>> THEN TRUE
  ELSE IF Head(s) # Head(u)
  THEN (IF Head(s).kind = "arr" /\ Head(u).kind = "arr"
        THEN ArrLess(Head(s).els, Head(u).els)
        ELSE ScalarLess(Head(s), Head(u)))
  ELSE ArrLess(Tail(s), Tail(u))

KeyLess(a, b) ==
  IF a.kind = "arr" /\ b.kind = "arr" THEN ArrLess(a.els, b.els)
  ELSE ScalarLess(a, b)

\* The key an index holds for a record.
IndexKey(d, pk, multiEntry) == ExtractKey(d.rows[pk].value, multiEntry).value

C21_LiveIndexesHaveStorageIndex ==
  (useSQLiteIndexes /\ AllStepsSucceeded)
  => \A i \in 1..Len(indexNames) : indexNames[i] \in db.sqlIdx

\* ----------------------------------------------------------------------- C22
\* The record a read hands out for the row pk.
RecordOf(d, pk, opType) ==
  IF opType = "key" THEN [key |-> PrimaryKey(pk), value |-> VNone]
  ELSE [key |-> VNone, value |-> d.rows[pk].value]

\* C22: the limit counts matching records.  A successful get or getKey
\* returns one record when m >= 1 records match, getAll and getAllKeys with
\* a limit n > 0 return min(n, m) of them and all m without a limit; every
\* record returned matches, and on a plain index at most i - 1 matching
\* records have an index key below that of the i-th record returned.
C22_LimitCountsMatches ==
  [][(FetchSucceeded /\ Head(queue).opType # "count")
     => LET s == Head(queue)
            multiEntry == objs[s.index].multiEntry
            items == lastStep'.result.items
            M == Matching(db, s, multiEntry)
            m == Cardinality(M)
            want == IF s.nullDisallowed THEN Min(1, m)
                    ELSE IF s.count > 0 THEN Min(s.count, m)
                    ELSE m
        IN /\ Len(items) = want
           /\ \A i \in 1..Len(items) :
                \E pk \in M :
                   /\ items[i] = RecordOf(db, pk, s.opType)
                   /\ ~multiEntry =>
                        Cardinality({q \in M : KeyLess(IndexKey(db, q, FALSE),
                                                       IndexKey(db, pk, FALSE))}) <= i - 1]_vars

\* ----------------------------------------------------------------------- C23
\* C23: while the transaction is running, after every call and every step,
\* the list of index names has no duplicate and every name in it maps in
\* the descriptor map to a descriptor that bears this name and is neither
\* deleted nor pending deletion.
C23_NamespaceConsistent ==
  (tx.active /\ ~tx.errored /\ ~store.deleted /\ ~store.pendingDelete)
  => /\ ~HasDuplicates(indexNames)
     /\ \A i \in 1..Len(indexNames) :
          LET n == indexNames[i]
          IN /\ indexes[n] # 0
             /\ objs[indexes[n]].name = n
             /\ ~objs[indexes[n]].deleted
             /\ ~objs[indexes[n]].pendingDelete

\* ----------------------------------------------------------------------- C24
\* The step at the head of the queue runs without a failure injected by the
\* backend.
StepRanUnfaulted(type) ==
  HeadIs(type) /\ lastStep'.n # lastStep.n /\ ~lastStep'.fault

\* C24: when an index is created and renamed before its queued create step
\* has run, the create step succeeds, and the rename step that follows it
\* succeeds and leaves one column for the index, under the new name, with
\* the backfilled entry of every record.
C24_CreateThenRename ==
  [][/\ (/\ StepRanUnfaulted("createIndex")
         /\ Len(queue) >= 2
         /\ queue[2].type = "renameIndex"
         /\ queue[2].index \in {Head(queue).index, Head(queue).handle}
         /\ queue[2].oldName = Head(queue).indexName)
        => lastStep'.out = "success"
     /\ (/\ StepRanUnfaulted("renameIndex")
         /\ lastStep.type = "createIndex" /\ lastStep.out = "success"
         /\ Head(queue).index \in {lastStep.step.index, lastStep.step.handle}
         /\ Head(queue).oldName = lastStep.step.indexName)
        => LET s == Head(queue)
               multiEntry == objs[s.index].multiEntry
           IN /\ lastStep'.out = "success"
              /\ s.newName \in db'.cols /\ s.oldName \notin db'.cols
              /\ \A pk \in PresentKeys(db') :
                   db'.rows[pk].ent[s.newName] =
                     Encode(IndexKey(db', pk, multiEntry), multiEntry)]_vars

\* ----------------------------------------------------------------------- C25
LifecycleFlags(o) == <<o.pendingCreate, o.pendingDelete, o.deleted, o.recreated>>

\* Instance j is the index named n itself, renamed by a call whose rename
\* step is still queued.
RenamePending(j, n) ==
  \E k \in 1..Len(queue) :
     /\ queue[k].type = "renameIndex"
     /\ queue[k].index = j
     /\ queue[k].oldName = n

\* The instances of the live indexes other than the index named n: the
\* descriptor and the handle filed under every other listed name.
OtherLiveInstances(n) ==
  {j \in ObjIds : \E m \in Range(indexNames) \ {n} :
      /\ j \in {indexes[m], indexHandles[m]}
      /\ indexes[m] # 0 /\ Live(objs[indexes[m]])
      /\ objs[indexes[m]].name = m
      /\ ~RenamePending(j, n)}

\* C25: an accepted createIndex or deleteIndex call, and a create or delete
\* step that succeeds, leave the lifecycle flags of the descriptor and the
\* handle of every other live index as they were, and those instances stay
\* readable.
C25_FlagsOfOtherIndexesKept ==
  [][/\ (/\ lastCall'.n # lastCall.n
         /\ lastCall'.op \in {"createIndex", "deleteIndex"}
         /\ lastCall'.result = "ok")
        => \A j \in OtherLiveInstances(lastCall'.name) :
             /\ LifecycleFlags(objs'[j]) = LifecycleFlags(objs[j])
             /\ Live(objs[j]) => Live(objs'[j])
     /\ (/\ (StepSucceeded("createIndex") \/ StepSucceeded("deleteIndex")))
        => \A j \in OtherLiveInstances(objs[Head(queue).index].name) :
             /\ LifecycleFlags(objs'[j]) = LifecycleFlags(objs[j])
             /\ Live(objs[j]) => Live(objs'[j])]_vars

\* ----------------------------------------------------------------------- C26
\* The queued function of a read runs.
FetchRuns == HeadIs("fetch") /\ lastStep'.n # lastStep.n

\* C26: when the queued function of a read runs, the index it was called on
\* is not pending creation, the transaction is not errored and, if the
\* read succeeds, the column it reads holds the backfilled entry of every
\* record.
C26_ReadAfterBackfill ==
  [][FetchRuns
     => LET s == Head(queue)
            index == objs[s.index]
        IN /\ ~tx.errored
           /\ ~index.pendingCreate
           /\ lastStep'.out = "success"
              => \A pk \in PresentKeys(db) :
                   db.rows[pk].ent[s.indexName] =
                     Backfilled(db.rows, s.indexName, index.multiEntry)[pk].ent[s.indexName]]_vars

\* A read called on an index created in the running upgrade transaction
\* has run with success over a record that has an entry.
C26_Witness ==
  /\ tx.mode = "versionchange" /\ ~tx.errored
  /\ lastStep.type = "fetch" /\ lastStep.out = "success"
  /\ lastStep.step.index \notin snapshot.loaded
  /\ lastCall.op \in OpTypes /\ lastCall.result = "ok"
  /\ \E pk \in PresentKeys(db) : db.rows[pk].ent[lastStep.step.indexName] # NULL

\* ----------------------------------------------------------------------- C27
\* The records of table d from which an index with this multiEntry setting
\* gets a key.
WithValidKey(d, multiEntry) ==
  {pk \in PresentKeys(d) : ~ExtractKey(d.rows[pk].value, multiEntry).failure}

\* C27: when the create step of a non-unique index whose column did not
\* exist succeeds, every record with a valid key holds its encoded key in
\* the index column and every other record holds none, the step has issued
\* one UPDATE for each record with a valid key, no other column and no
\* record has changed, and pendingCreate is cleared on the descriptor and
\* on the handle; a create step that does not succeed leaves pendingCreate
\* set on both.
C27_BackfillEveryRecord ==
  [][(/\ HeadIs("createIndex") /\ lastStep'.n # lastStep.n
      /\ ~objs[Head(queue).index].unique
      /\ Head(queue).indexName \notin db.cols)
     => LET s == Head(queue)
            index == objs[s.index]
            valid == WithValidKey(db, index.multiEntry)
            whole == CreateIndexChain(db, s, 0, indexNames, indexes, objs,
                                      useSQLiteIndexes)
        IN IF lastStep'.out = "success"
           THEN /\ \A pk \in valid :
                     db'.rows[pk].ent[s.indexName] =
                       Encode(ExtractKey(db.rows[pk].value, index.multiEntry).value,
                              index.multiEntry)
                /\ \A pk \in (1..MaxRec) \ valid : db'.rows[pk].ent[s.indexName] = NULL
                /\ \A pk \in 1..MaxRec :
                     /\ db'.rows[pk].value = db.rows[pk].value
                     /\ db'.rows[pk].present = db.rows[pk].present
                     /\ \A c \in Names \ {s.indexName} :
                          db'.rows[pk].ent[c] = db.rows[pk].ent[c]
                /\ whole.stmts = (IF useSQLiteIndexes THEN 4 ELSE 3) + Cardinality(valid)
                /\ ~objs'[s.index].pendingCreate
                /\ ~objs'[s.handle].pendingCreate
           ELSE /\ objs'[s.index].pendingCreate = objs[s.index].pendingCreate
                /\ objs'[s.handle].pendingCreate = objs[s.handle].pendingCreate]_vars

\* The create step of a non-unique index has succeeded on a new column over
\* one record with a valid key, which has its entry, and one record without,
\* which has none.
C27_Witness ==
  /\ lastStep.type = "createIndex" /\ lastStep.out = "success"
  /\ ~objs[lastStep.step.index].unique
  /\ lastStep.step.idx = 0
  /\ queue = <<>> /\ lastCall.op = "createIndex"
  /\ \E pk, qk \in PresentKeys(db) :
       /\ db.rows[pk].value = VNone
       /\ db.rows[pk].ent[lastStep.step.indexName] = NULL
       /\ db.rows[qk].ent[lastStep.step.indexName] # NULL
  /\ ~objs[lastStep.step.index].pendingCreate
  /\ ~objs[lastStep.step.handle].pendingCreate

====
